---------------------------- MODULE Spec2Model ----------------------------
(***************************************************************************)
(* A model of the nurikabe puzzle game: the CellState domain, the Grid    *)
(* container with its two text constructors, get/set/check, and the game  *)
(* session driven by the per-frame systems of main.rs.                     *)
(*                                                                         *)
(* Coordinates are zero-based as in the source; a Vec is a TLA+ sequence,  *)
(* so the element at index i of a Vec v is v[i + 1].                       *)
(***************************************************************************)
EXTENDS Integers, Sequences, FiniteSets, TLC

VARIABLES
    \* ---- inputs of the pure-function specifications
    fn,             \* which function has been applied ("none" before the call)
    arg_a, arg_b,   \* CellState arguments
    arg_g, arg_s,   \* Grid arguments
    arg_row, arg_col,
    n_calls,        \* how many times the function has been applied
    ret_cell,       \* a CellState result (PanicCell when the call panicked)
    ret_bool,       \* a boolean result
    ret_check,      \* the result of Grid::check: "true", "false" or "panic"
    \* ---- the loader
    puzzle_str,     \* the puzzle file's text, as str.lines() yields it
    solution_str,   \* the solution file's text, as str.lines() yields it
    ret_grid,       \* the result of a constructor call (in the session: of the
                    \* from_puzzle_string call of load_puzzle)
    \* ---- the session (the Bevy world)
    status,         \* "running"; "failed" when Startup panicked (no session exists);
                    \* "panicked" once an Update system has panicked
    puzzle,         \* Puzzle resource: game_grid and solution_grid
    tiles,          \* the tile entities: (row, col) -> Cell component
    cursor,         \* the Cursor entity's GridComponent
    grid_size,      \* GridSize resource
    game_state,     \* GameState resource
    unread_ugs,     \* ChangeGameState events update_game_state has not read yet
    unread_gw,      \* ChangeGameState events game_win has not read yet
    win_sprites,    \* number of WinSprite entities spawned
    todo,           \* the Update systems that have not run yet in this frame
    last            \* what the last step did: "toggle" (toggle_cell ran its body: Space
                    \* just pressed while Playing), "reset" (reset_puzzle ran its body:
                    \* R just pressed while Playing), "other", or "none" at the start

pure_vars == <<fn, arg_a, arg_b, arg_g, arg_s, arg_row, arg_col,
               n_calls, ret_cell, ret_bool, ret_check>>
load_vars == <<puzzle_str, solution_str, ret_grid>>
game_vars == <<status, puzzle, tiles, cursor, grid_size, game_state,
               unread_ugs, unread_gw, win_sprites, todo, last>>
vars == <<pure_vars, load_vars, game_vars>>

-----------------------------------------------------------------------------
(* Bounds of the model *)

\* Value(n) cells of the pure-function specification carry n in -MaxValue..MaxValue
MaxValue == 6
\* grids and solution texts of SpecGrid hold at most MaxGridCells cells: rows * cols
\* (lines * longest line) is at most MaxGridCells
MaxGridCells == 3
\* puzzle and solution files of the session hold at most MaxCells cells
MaxCells == 2
\* puzzle files of the session have at most MaxClues clue lines
MaxClues == 1

-----------------------------------------------------------------------------
(* CellState: main.rs *)

I8Min == -128
I8Max == 127

Blank == [tag |-> "Blank", n |-> 0]
Island == [tag |-> "Island", n |-> 0]
River == [tag |-> "River", n |-> 0]
Value(v) == [tag |-> "Value", n |-> v]

\* the outcome of a call that panicked where a CellState was expected
PanicCell == [tag |-> "Panic", n |-> 0]

IsValue(s) == s.tag = "Value"

\* a wrong transition table: Island and River swapped
next_swapped(s) ==
    CASE s = Blank -> River
      [] s = Island -> River
      [] s = River -> Blank
      [] OTHER -> s

\* CellState::next
next(s) ==
    CASE s = Blank -> River
      [] s = Island -> Blank
      [] s = River -> Island
      [] OTHER -> s

\* a comparison that demands literal equality of the two cells
is_same_literal(s, other) == s = other

\* CellState::is_same
is_same(s, other) ==
    IF s.tag \in {"Blank", "Value", "Island"}
    THEN other # River
    ELSE other = River


-----------------------------------------------------------------------------
(* Grid: grid.rs *)

GridSize(r, c) == [rows |-> r, cols |-> c]

\* a Grid value; the Vec<Vec<CellState>> may be ragged, the struct does not forbid it
MkGrid(size, cells) == [grid_size |-> size, grid |-> cells]

\* a clamp that lets one past the upper bound through
Clamp_wide(x, lo, hi) == IF x < lo THEN lo ELSE IF x > hi + 1 THEN hi + 1 ELSE x

\* Ord::clamp (callers pass lo <= hi)
Clamp(x, lo, hi) == IF x < lo THEN lo ELSE IF x > hi THEN hi ELSE x

\* GridComponent::new
GridComponent(r, c) == [row |-> r, col |-> c]

\* Grid::get: clamps to rows and cols (not rows - 1, cols - 1), then indexes with
\* Vec::get(..).unwrap(), which panics when the index is not in the Vec
GridGet(g, row, col) ==
    LET r == Clamp(row, 0, g.grid_size.rows)
        c == Clamp(col, 0, g.grid_size.cols)
    IN  IF r >= Len(g.grid) THEN PanicCell
        ELSE IF c >= Len(g.grid[r + 1]) THEN PanicCell
        ELSE g.grid[r + 1][c + 1]

\* Grid::set panics (index out of bounds) exactly when this holds
SetPanics(g, location) ==
    \/ location.row >= Len(g.grid)
    \/ location.col >= Len(g.grid[location.row + 1])

\* a set that writes the transposed coordinate
GridSet_transposed(g, location, value) ==
    [g EXCEPT !.grid[location.col + 1][location.row + 1] = value]

\* Grid::set, where it does not panic
GridSet(g, location, value) ==
    [g EXCEPT !.grid[location.row + 1][location.col + 1] = value]

RECURSIVE CheckFrom(_, _, _)
\* the loop of Grid::check from the k-th coordinate in row-major order
CheckFrom(g, solution, k) ==
    LET rows == g.grid_size.rows
        cols == g.grid_size.cols
    IN  IF k >= rows * cols THEN "true"
        ELSE LET row == k \div cols
                 col == k % cols
                 a == GridGet(g, row, col)
                 b == GridGet(solution, row, col)
             IN  IF a = PanicCell \/ b = PanicCell THEN "panic"
                 ELSE IF ~is_same(a, b) THEN "false"
                 ELSE CheckFrom(g, solution, k + 1)

\* a check that forgets to compare the sizes
Check_nosize(g, solution) == CheckFrom(g, solution, 0)

\* Grid::check: "true", "false", or "panic" when a get inside it panics
Check(g, solution) ==
    IF g.grid_size # solution.grid_size THEN "false"
    ELSE CheckFrom(g, solution, 0)

-----------------------------------------------------------------------------
(* Text: a text is the sequence of its lines (what str.lines() yields), a line  *)
(* the sequence of its characters, a character a one-character string.          *)

DigitChars == <<"0", "1", "2", "3", "4", "5", "6", "7", "8", "9">>

\* char::is_digit(10)
IsDigit(c) == \E d \in 1..Len(DigitChars) : DigitChars[d] = c

\* char::to_digit(10) of a digit
ToDigit(c) == (CHOOSE d \in 1..Len(DigitChars) : DigitChars[d] = c) - 1

RECURSIVE Numeral(_)
\* the decimal text of an integer, as Display writes it
Numeral(n) ==
    IF n < 0 THEN <<"-">> \o Numeral(-n)
    ELSE IF n < 10 THEN <<DigitChars[n + 1]>>
    ELSE Numeral(n \div 10) \o <<DigitChars[(n % 10) + 1]>>

RECURSIVE JoinComma(_)
\* tokens joined by ","
JoinComma(toks) ==
    IF Len(toks) = 0 THEN <<>>
    ELSE IF Len(toks) = 1 THEN toks[1]
    ELSE toks[1] \o <<",">> \o JoinComma(Tail(toks))

RECURSIVE SplitComma(_)
\* str::split(","): the pieces between the commas; an empty line is one empty piece
SplitComma(line) ==
    IF \A i \in 1..Len(line) : line[i] # ","
    THEN <<line>>
    ELSE LET i == CHOOSE j \in 1..Len(line) :
                      line[j] = "," /\ \A k \in 1..(j - 1) : line[k] # ","
         IN  <<SubSeq(line, 1, i - 1)>> \o SplitComma(SubSeq(line, i + 1, Len(line)))

RECURSIVE DigitsValue(_)
\* the value of a sequence of digits
DigitsValue(ds) ==
    IF Len(ds) = 0 THEN 0
    ELSE 10 * DigitsValue(SubSeq(ds, 1, Len(ds) - 1)) + ToDigit(ds[Len(ds)])

ParseOk(v) == [ok |-> TRUE, val |-> v]
ParseErr == [ok |-> FALSE, val |-> 0]

AllDigits(ds) == Len(ds) > 0 /\ \A i \in 1..Len(ds) : IsDigit(ds[i])

\* str::parse::<usize>: an optional "+", then digits; no sign "-", no blanks
\* (tokens of the model are far below usize::MAX, so no overflow error)
ParseUsize(tok) ==
    LET ds == IF Len(tok) > 0 /\ tok[1] = "+" THEN Tail(tok) ELSE tok
    IN  IF AllDigits(ds) THEN ParseOk(DigitsValue(ds)) ELSE ParseErr

\* str::parse::<i8>: an optional "+" or "-", then digits; Err outside -128..127
ParseI8(tok) ==
    LET signed == Len(tok) > 0 /\ tok[1] \in {"+", "-"}
        ds == IF signed THEN Tail(tok) ELSE tok
        v == IF signed /\ tok[1] = "-" THEN -DigitsValue(ds) ELSE DigitsValue(ds)
    IN  IF AllDigits(ds) /\ v >= I8Min /\ v <= I8Max THEN ParseOk(v) ELSE ParseErr

-----------------------------------------------------------------------------
(* The constructors: grid.rs *)

\* what a constructor call yields: a Grid, or a panic (then grid is the empty grid)
Built(g) == [ok |-> TRUE, grid |-> g]
BuildPanic == [ok |-> FALSE, grid |-> MkGrid(GridSize(0, 0), <<>>)]

\* vec![vec![CellState::Blank; cols]; rows]
BlankCells(rows, cols) == [r \in 1..rows |-> [c \in 1..cols |-> Blank]]

\* `(n - 1) as usize` for an i8 n, used as a Vec index. The index is kept signed
\* here: a negative i8 casts to at least 2^64 - 129, beyond any Vec; and -128 - 1
\* either panics (debug build) or wraps to 127 (release build)
ClueIndexWraps(n) == n - 1 < I8Min
ClueIndex(n) == IF ClueIndexWraps(n) THEN n - 1 + 256 ELSE n - 1

RECURSIVE PlaceClues(_, _, _)
\* the clue loop of from_puzzle_string over lines[i..]: the cells, or <<"panic">>
PlaceClues(cells, lines, i) ==
    IF i > Len(lines) THEN <<"ok", cells>>
    ELSE LET toks == SplitComma(lines[i])
             size == ParseI8(toks[1])
             row == IF Len(toks) >= 2 THEN ParseI8(toks[2]) ELSE ParseErr
             col == IF Len(toks) >= 3 THEN ParseI8(toks[3]) ELSE ParseErr
             r == ClueIndex(row.val)
             c == ClueIndex(col.val)
         IN  IF ~size.ok \/ ~row.ok \/ ~col.ok THEN <<"panic">>
             ELSE IF r < 0 \/ r >= Len(cells) THEN <<"panic">>
             ELSE IF c < 0 \/ c >= Len(cells[r + 1]) THEN <<"panic">>
             ELSE PlaceClues([cells EXCEPT ![r + 1][c + 1] = Value(size.val)],
                             lines, i + 1)

\* a constructor that reads the dimension line as rows,cols
from_puzzle_string_rows_first(str) ==
    IF Len(str) < 2 THEN BuildPanic
    ELSE LET numbers == SplitComma(str[2])
             cols == IF Len(numbers) >= 2 THEN ParseUsize(numbers[2]) ELSE ParseErr
             rows == ParseUsize(numbers[1])
         IN  IF ~cols.ok \/ ~rows.ok THEN BuildPanic
             ELSE LET placed == PlaceClues(BlankCells(rows.val, cols.val), str, 5)
                  IN  IF placed[1] = "panic" THEN BuildPanic
                      ELSE Built(MkGrid(GridSize(rows.val, cols.val), placed[2]))

\* Grid::from_puzzle_string: line 1 is skipped, line 2 is cols,rows, lines 3 and 4
\* are skipped, every further line is a clue size,row,col
from_puzzle_string(str) ==
    IF Len(str) < 2 THEN BuildPanic
    ELSE LET numbers == SplitComma(str[2])
             cols == ParseUsize(numbers[1])
             rows == IF Len(numbers) >= 2 THEN ParseUsize(numbers[2]) ELSE ParseErr
         IN  IF ~cols.ok \/ ~rows.ok THEN BuildPanic
             ELSE LET placed == PlaceClues(BlankCells(rows.val, cols.val), str, 5)
                  IN  IF placed[1] = "panic" THEN BuildPanic
                      ELSE Built(MkGrid(GridSize(rows.val, cols.val), placed[2]))

\* the cell a character of the solution text stands for
SolutionCell(c) ==
    IF IsDigit(c) THEN Value(ToDigit(c))
    ELSE IF c = "x" THEN River
    ELSE Island

\* a constructor that builds every row from the first line
from_solution_string_first_row_only(str) ==
    IF Len(str) = 0 THEN BuildPanic
    ELSE Built(MkGrid(GridSize(Len(str), Len(str[1])),
                      [r \in 1..Len(str) |->
                          [c \in 1..Len(str[1]) |-> SolutionCell(str[1][c])]]))

\* Grid::from_solution_string: one row per line, one cell per character; rows is
\* the line count and cols the length of the first line (grid.get(0).unwrap()
\* panics on a text without lines)
from_solution_string(str) ==
    IF Len(str) = 0 THEN BuildPanic
    ELSE Built(MkGrid(GridSize(Len(str), Len(str[1])),
                      [r \in 1..Len(str) |->
                          [c \in 1..Len(str[r]) |-> SolutionCell(str[r][c])]]))

-----------------------------------------------------------------------------
(* Values of the variables a specification does not use *)

EmptyGrid == MkGrid(GridSize(0, 0), <<>>)

CellArgsIdle == arg_a = Blank /\ arg_b = Blank
GridArgsIdle == arg_g = EmptyGrid /\ arg_s = EmptyGrid /\ arg_row = 0 /\ arg_col = 0
NotCalled ==
    /\ fn = "none"
    /\ n_calls = 0
    /\ ret_cell = Blank
    /\ ret_bool = FALSE
    /\ ret_check = "none"
LoadIdle == puzzle_str = <<>> /\ solution_str = <<>> /\ ret_grid = BuildPanic
GameIdle ==
    /\ status = "idle"
    /\ puzzle = [game_grid |-> EmptyGrid, solution_grid |-> EmptyGrid]
    /\ tiles = <<>>
    /\ cursor = GridComponent(0, 0)
    /\ grid_size = GridSize(0, 0)
    /\ game_state = "Menu"
    /\ unread_ugs = 0
    /\ unread_gw = 0
    /\ win_sprites = 0
    /\ todo = {}
    /\ last = "none"

-----------------------------------------------------------------------------
(* SpecCell: CellState::next and CellState::is_same applied to every pair of  *)
(* cell states with |n| <= MaxValue                                           *)

Togglable == {Blank, Island, River}
CellStates == Togglable \cup {Value(v) : v \in (-MaxValue)..MaxValue}

InitCell ==
    /\ arg_a \in CellStates
    /\ arg_b \in CellStates
    /\ GridArgsIdle /\ NotCalled /\ LoadIdle /\ GameIdle

\* s.next(), applied again to its own result on every further call
CallNext ==
    /\ fn \in {"none", "next"}
    /\ n_calls < 3
    /\ fn' = "next"
    /\ n_calls' = n_calls + 1
    /\ ret_cell' = next(IF n_calls = 0 THEN arg_a ELSE ret_cell)
    /\ UNCHANGED <<arg_a, arg_b, arg_g, arg_s, arg_row, arg_col, ret_bool, ret_check>>
    /\ UNCHANGED <<load_vars, game_vars>>

\* a.is_same(b)
CallIsSame ==
    /\ fn = "none"
    /\ fn' = "is_same"
    /\ n_calls' = 1
    /\ ret_bool' = is_same(arg_a, arg_b)
    /\ UNCHANGED <<arg_a, arg_b, arg_g, arg_s, arg_row, arg_col, ret_cell, ret_check>>
    /\ UNCHANGED <<load_vars, game_vars>>

NextCell == CallNext \/ CallIsSame

SpecCell == InitCell /\ [][NextCell]_vars

\* C9: next is a 3-cycle on {Blank, Island, River}, Blank -> River -> Island ->
\* Blank, so one application moves the state and three return it; and next fixes
\* every Value(n)
C9_NextCycle ==
    fn = "next" =>
        /\ (n_calls = 1 /\ arg_a = Blank) => ret_cell = River
        /\ (n_calls = 1 /\ arg_a = River) => ret_cell = Island
        /\ (n_calls = 1 /\ arg_a = Island) => ret_cell = Blank
        /\ (n_calls = 1 /\ arg_a \in Togglable) => ret_cell # arg_a
        /\ (n_calls = 3 /\ arg_a \in Togglable) => ret_cell = arg_a
        /\ IsValue(arg_a) => ret_cell = arg_a

\* C9 witness: three applications have brought River back to River
C9_Witness == fn = "next" /\ n_calls = 3 /\ arg_a = River /\ ret_cell = River

\* C10: with a land-equivalent left side (Blank, Island, Value) is_same holds iff
\* the right side is not River; with River on the left iff the right is River
C10_IsSame ==
    fn = "is_same" =>
        /\ arg_a # River => (ret_bool <=> arg_b # River)
        /\ arg_a = River => (ret_bool <=> arg_b = River)
        /\ (arg_a = Blank /\ arg_b = Value(5)) => ret_bool
        /\ (arg_a = Island /\ arg_b = Value(5)) => ret_bool
        /\ (arg_a = Value(3) /\ arg_b = Island) => ret_bool
        /\ (arg_a = River /\ arg_b = River) => ret_bool
        /\ (arg_a = River /\ arg_b = Island) => ~ret_bool
        /\ (arg_a = Blank /\ arg_b = River) => ~ret_bool

\* C10 witness: is_same(Value(3), Island) has been computed and is true
C10_Witness == fn = "is_same" /\ arg_a = Value(3) /\ arg_b = Island /\ ret_bool

-----------------------------------------------------------------------------
(* SpecGrid: Grid::check and Grid::get applied to the grids the program can    *)
(* hold: a working grid (rectangular, any cell state) and a solution grid as   *)
(* from_solution_string builds it from a text, each of at most MaxGridCells     *)
(* cells                                                                        *)

\* all sequences over S of length 0..n
SeqsUpTo(S, n) == UNION {[1..k -> S] : k \in 0..n}

WorkingCells == {Blank, Island, River, Value(1)}
\* the sizes <<rows, cols>> of at most n cells, a zero dimension included
Dims(n) == {d \in (0..n) \X (0..n) : d[1] * d[2] <= n}

\* the texts over chars of at most n cells: k lines of at most n \div k characters
\* each (lines of unequal length among them), and the text without lines
Texts(chars, n) ==
    {<<>>} \cup UNION {[1..k -> SeqsUpTo(chars, n \div k)] : k \in 1..n}

WorkingGrids ==
    UNION {{MkGrid(GridSize(d[1], d[2]), cells) :
                cells \in [1..d[1] -> [1..d[2] -> WorkingCells]]} :
              d \in Dims(MaxGridCells)}

SolutionChars == {"x", ".", "1"}
SolutionTexts == Texts(SolutionChars, MaxGridCells)
SolutionGrids ==
    {from_solution_string(t).grid : t \in {u \in SolutionTexts : Len(u) > 0}}

InitGrid ==
    /\ arg_g \in WorkingGrids
    /\ arg_s \in SolutionGrids
    /\ arg_row = 0 /\ arg_col = 0
    /\ CellArgsIdle /\ NotCalled /\ LoadIdle /\ GameIdle

\* arg_g.check(&arg_s)
CallCheck ==
    /\ fn = "none"
    /\ fn' = "check"
    /\ n_calls' = 1
    /\ ret_check' = Check(arg_g, arg_s)
    /\ UNCHANGED <<arg_a, arg_b, arg_g, arg_s, arg_row, arg_col, ret_cell, ret_bool>>
    /\ UNCHANGED <<load_vars, game_vars>>

\* arg_g.get(row, col), for coordinates up to one past the size
CallGet ==
    /\ fn = "none"
    /\ \E row \in 0..(arg_g.grid_size.rows + 1), col \in 0..(arg_g.grid_size.cols + 1) :
        /\ arg_row' = row
        /\ arg_col' = col
        /\ ret_cell' = GridGet(arg_g, row, col)
    /\ fn' = "get"
    /\ n_calls' = 1
    /\ UNCHANGED <<arg_a, arg_b, arg_g, arg_s, ret_bool, ret_check>>
    /\ UNCHANGED <<load_vars, game_vars>>

NextGrid == CallCheck \/ CallGet

SpecGrid == InitGrid /\ [][NextGrid]_vars

Min(a, b) == IF a < b THEN a ELSE b

\* every coordinate of g holds a cell in both grids, and the cells are is_same
SameEverywhere(g, solution) ==
    \A r \in 0..(g.grid_size.rows - 1), c \in 0..(g.grid_size.cols - 1) :
        /\ r < Len(solution.grid)
        /\ c < Len(solution.grid[r + 1])
        /\ is_same(g.grid[r + 1][c + 1], solution.grid[r + 1][c + 1])

\* C4: check returns a boolean without failing: false when the sizes differ,
\* otherwise true iff is_same holds at every coordinate
C4_CheckTotal ==
    fn = "check" =>
        /\ ret_check \in {"true", "false"}
        /\ arg_g.grid_size # arg_s.grid_size => ret_check = "false"
        /\ arg_g.grid_size = arg_s.grid_size =>
               (ret_check = "true" <=> SameEverywhere(arg_g, arg_s))

\* C6: get never fails and returns the cell at (min(row, rows-1), min(col, cols-1))
\* of a grid with at least one row and one column
C6_GetClamps ==
    (fn = "get" /\ arg_g.grid_size.rows >= 1 /\ arg_g.grid_size.cols >= 1) =>
        /\ ret_cell # PanicCell
        /\ ret_cell = arg_g.grid[Min(arg_row, arg_g.grid_size.rows - 1) + 1]
                                [Min(arg_col, arg_g.grid_size.cols - 1) + 1]

-----------------------------------------------------------------------------
(* The session: main.rs. Startup runs load_puzzle then setup; after that every *)
(* frame runs the Update systems once each, in an order the scheduler picks    *)
(* (main adds them without ordering constraints).                              *)

\* the Update systems that touch the session (close_on_esc, update_cell and
\* update_cursor_location only draw or quit)
Systems == {"move_cursor", "toggle_cell", "reset_puzzle", "update_game_state", "game_win"}

\* the text of a puzzle file: a header line, cols,rows, two skipped lines, clues
PuzzleText(rows, cols, clues) ==
    << <<"#">>, JoinComma(<<Numeral(cols), Numeral(rows)>>), <<>>, <<>> >> \o clues

\* a clue line size,row,col (row and col count from 1)
ClueLine(size, row, col) == JoinComma(<<Numeral(size), Numeral(row), Numeral(col)>>)

\* the puzzle files of the session: every size of at most MaxCells cells (a zero
\* dimension included) with up to MaxClues clues of size 2 at rows and columns
\* 1..MaxCells (so some clues lie outside the smaller grids)
SessionPuzzleTexts ==
    {PuzzleText(d[1], d[2], clues) :
        d \in Dims(MaxCells),
        clues \in SeqsUpTo({ClueLine(2, cr, cc) : cr \in 1..MaxCells, cc \in 1..MaxCells},
                           MaxClues)}

\* the solution files of the session: the texts of at most MaxCells cells, water
\* "x" or land "."; lines of unequal length and sizes other than the puzzle's are
\* among them
SessionSolutionTexts == Texts({"x", "."}, MaxCells)

\* a spawn loop that gives every tile a Blank Cell
SpawnTiles_blank(grid) ==
    [loc \in {GridComponent(r, c) : r \in 0..(grid.grid_size.rows - 1),
                                    c \in 0..(grid.grid_size.cols - 1)}
        |-> Blank]

\* the tile entities setup spawns: one per coordinate, holding grid.get(row, col)
SpawnTiles(grid) ==
    [loc \in {GridComponent(r, c) : r \in 0..(grid.grid_size.rows - 1),
                                    c \in 0..(grid.grid_size.cols - 1)}
        |-> GridGet(grid, loc.row, loc.col)]

\* get_offset computes grid_size.cols - 1 and grid_size.rows - 1 in usize: with a
\* zero dimension that panics in a debug build and wraps in a release build
OffsetOverflows(size) == size.rows = 0 \/ size.cols = 0

\* the world when Startup has panicked: no resource was inserted, nothing spawned
StartupFailed ==
    /\ status = "failed"
    /\ puzzle = [game_grid |-> EmptyGrid, solution_grid |-> EmptyGrid]
    /\ tiles = <<>>
    /\ cursor = GridComponent(0, 0)
    /\ grid_size = GridSize(0, 0)
    /\ game_state = "Menu"
    /\ todo = Systems

\* Startup: load_puzzle builds both grids from the two files (either constructor
\* may panic), setup spawns the cursor at (0, 0) and the tiles, and inserts the
\* GridSize and GameState::Playing. Nothing compares the two grids' sizes.
Init ==
    /\ puzzle_str \in SessionPuzzleTexts
    /\ solution_str \in SessionSolutionTexts
    /\ ret_grid = from_puzzle_string(puzzle_str)
    /\ CellArgsIdle /\ GridArgsIdle /\ NotCalled
    /\ unread_ugs = 0 /\ unread_gw = 0 /\ win_sprites = 0
    /\ last = "none"
    /\ LET game == from_puzzle_string(puzzle_str)
           solution == from_solution_string(solution_str)
       IN  IF ~game.ok \/ ~solution.ok
           THEN StartupFailed
           ELSE \/ /\ status = "running"
                   /\ puzzle = [game_grid |-> game.grid, solution_grid |-> solution.grid]
                   /\ tiles = SpawnTiles(game.grid)
                   /\ cursor = GridComponent(0, 0)
                   /\ grid_size = game.grid.grid_size
                   /\ game_state = "Playing"
                   /\ todo = Systems
                \/ /\ OffsetOverflows(game.grid.grid_size)
                   /\ StartupFailed

\* a system has run: it is due again once every system has run (the next frame)
Ran(sys) == todo' = IF todo = {sys} THEN Systems ELSE todo \ {sys}

\* a system panics: the program stops where it is
Panics == status' = "panicked" /\ UNCHANGED todo

\* a reset arm that blanks every cell, clues included
ResetCell_all(s) == Blank

\* a reset arm that leaves an Island as it is
ResetCell_keep_island(s) == IF s.tag \in {"Blank", "River"} THEN Blank ELSE s

\* the match of reset_puzzle: Blank, Island and River become Blank, a Value stays
ResetCell(s) == IF s.tag \in {"Blank", "Island", "River"} THEN Blank ELSE s

RECURSIVE ResetFrom(_, _)
\* the grid loop of reset_puzzle from the k-th coordinate in row-major order: each
\* cell is read with get and written back with set
ResetFrom(g, k) ==
    LET rows == g.grid_size.rows
        cols == g.grid_size.cols
    IN  IF k >= rows * cols THEN g
        ELSE LET row == k \div cols
                 col == k % cols
             IN  ResetFrom(GridSet(g, GridComponent(row, col),
                                   ResetCell(GridGet(g, row, col))), k + 1)

\* temp after the four key tests of move_cursor, for every combination of direction
\* keys released in the frame: <<x, y>>, x from the row and y from the column
MovedCursors(location) ==
    {<<location.row + (IF up THEN 1 ELSE 0) - (IF down THEN 1 ELSE 0),
       location.col - (IF left THEN 1 ELSE 0) + (IF right THEN 1 ELSE 0)>> :
        left \in BOOLEAN, right \in BOOLEAN, up \in BOOLEAN, down \in BOOLEAN}

\* a move_cursor without the test of the game state
MoveCursor_always ==
    /\ status = "running"
    /\ "move_cursor" \in todo
    /\ IF grid_size.rows = 0 \/ grid_size.cols = 0
       THEN UNCHANGED cursor /\ Panics
       ELSE \E temp \in MovedCursors(cursor) :
               /\ cursor' = GridComponent(Clamp(temp[1], 0, grid_size.rows - 1),
                                          Clamp(temp[2], 0, grid_size.cols - 1))
               /\ UNCHANGED status
               /\ Ran("move_cursor")
    /\ last' = "other"
    /\ UNCHANGED <<puzzle, tiles, grid_size, game_state, unread_ugs, unread_gw, win_sprites>>
    /\ UNCHANGED <<pure_vars, load_vars>>

\* move_cursor: each direction key released in this frame moves the cursor by one,
\* then the position is clamped to the grid. With a zero dimension rows - 1 or
\* cols - 1 overflows: a panic in a debug build, and in a release build the bound
\* wraps to -1 and i32::clamp(0, -1) panics.
MoveCursor ==
    /\ status = "running"
    /\ "move_cursor" \in todo
    /\ IF game_state # "Playing"
       THEN UNCHANGED <<cursor, status>> /\ Ran("move_cursor")
       ELSE IF grid_size.rows = 0 \/ grid_size.cols = 0
       THEN UNCHANGED cursor /\ Panics
       ELSE \E temp \in MovedCursors(cursor) :
               /\ cursor' = GridComponent(Clamp(temp[1], 0, grid_size.rows - 1),
                                          Clamp(temp[2], 0, grid_size.cols - 1))
               /\ UNCHANGED status
               /\ Ran("move_cursor")
    /\ last' = "other"
    /\ UNCHANGED <<puzzle, tiles, grid_size, game_state, unread_ugs, unread_gw, win_sprites>>
    /\ UNCHANGED <<pure_vars, load_vars>>

\* toggle_cell: while Playing and with Space just pressed, the tile under the
\* cursor gets next() of its Cell, the same value is written into the working grid
\* with set, and check decides whether ChangeGameState(Won) is sent
ToggleCell ==
    /\ status = "running"
    /\ "toggle_cell" \in todo
    /\ \E space \in BOOLEAN :
        IF game_state # "Playing" \/ ~space
        THEN /\ UNCHANGED <<puzzle, tiles, status, unread_ugs, unread_gw>>
             /\ Ran("toggle_cell")
             /\ last' = "other"
        ELSE /\ last' = "toggle"
             /\ IF cursor \notin DOMAIN tiles
                THEN /\ UNCHANGED <<puzzle, tiles, status, unread_ugs, unread_gw>>
                     /\ Ran("toggle_cell")
                ELSE LET next_state == next(tiles[cursor])
                         written == GridSet(puzzle.game_grid, cursor, next_state)
                         won == Check(written, puzzle.solution_grid)
                     IN  /\ tiles' = [tiles EXCEPT ![cursor] = next_state]
                         /\ IF SetPanics(puzzle.game_grid, cursor)
                            THEN UNCHANGED <<puzzle, unread_ugs, unread_gw>> /\ Panics
                            ELSE /\ puzzle' = [puzzle EXCEPT !.game_grid = written]
                                 /\ IF won = "panic"
                                    THEN UNCHANGED <<unread_ugs, unread_gw>> /\ Panics
                                    ELSE /\ unread_ugs' = unread_ugs + (IF won = "true" THEN 1 ELSE 0)
                                         /\ unread_gw' = unread_gw + (IF won = "true" THEN 1 ELSE 0)
                                         /\ UNCHANGED status
                                         /\ Ran("toggle_cell")
    /\ UNCHANGED <<cursor, grid_size, game_state, win_sprites>>
    /\ UNCHANGED <<pure_vars, load_vars>>

\* reset_puzzle: while Playing and with R just pressed, every tile's Cell and every
\* cell of the working grid that is not a Value becomes Blank
ResetPuzzle ==
    /\ status = "running"
    /\ "reset_puzzle" \in todo
    /\ \E key_r \in BOOLEAN :
        IF game_state # "Playing" \/ ~key_r
        THEN UNCHANGED <<puzzle, tiles>> /\ last' = "other"
        ELSE /\ tiles' = [loc \in DOMAIN tiles |-> ResetCell(tiles[loc])]
             /\ puzzle' = [puzzle EXCEPT !.game_grid = ResetFrom(puzzle.game_grid, 0)]
             /\ last' = "reset"
    /\ Ran("reset_puzzle")
    /\ UNCHANGED <<status, cursor, grid_size, game_state, unread_ugs, unread_gw, win_sprites>>
    /\ UNCHANGED <<pure_vars, load_vars>>

\* update_game_state: every ChangeGameState event not read yet sets the GameState
\* (the only event the program sends is ChangeGameState(Won))
UpdateGameState ==
    /\ status = "running"
    /\ "update_game_state" \in todo
    /\ game_state' = IF unread_ugs > 0 THEN "Won" ELSE game_state
    /\ unread_ugs' = 0
    /\ Ran("update_game_state")
    /\ last' = "other"
    /\ UNCHANGED <<status, puzzle, tiles, cursor, grid_size, unread_gw, win_sprites>>
    /\ UNCHANGED <<pure_vars, load_vars>>

\* game_win: every ChangeGameState(Won) event not read yet spawns a WinSprite
GameWin ==
    /\ status = "running"
    /\ "game_win" \in todo
    /\ win_sprites' = win_sprites + unread_gw
    /\ unread_gw' = 0
    /\ Ran("game_win")
    /\ last' = "other"
    /\ UNCHANGED <<status, puzzle, tiles, cursor, grid_size, game_state, unread_ugs>>
    /\ UNCHANGED <<pure_vars, load_vars>>

Next == MoveCursor \/ ToggleCell \/ ResetPuzzle \/ UpdateGameState \/ GameWin

Spec == Init /\ [][Next]_vars

-----------------------------------------------------------------------------
(* Claims about the session *)

\* a session exists: Startup did not panic
InSession == status # "failed"

\* the cell of a grid's Vec at a zero-based coordinate
CellAt(g, r, c) == g.grid[r + 1][c + 1]

\* the zero-based coordinates the Vec of a grid holds
Coords(g) ==
    UNION {{GridComponent(r - 1, c - 1) : c \in 1..Len(g.grid[r])} : r \in 1..Len(g.grid)}

\* every row of the Vec has grid_size.cols cells and there are grid_size.rows rows
Rectangular(g) ==
    /\ Len(g.grid) = g.grid_size.rows
    /\ \A r \in 1..Len(g.grid) : Len(g.grid[r]) = g.grid_size.cols

\* C1: a toggle (toggle_cell with Space just pressed while Playing) at the cursor
\* replaces exactly that cell of the working grid by Blank -> River, River ->
\* Island, Island -> Blank, leaves a Value as it is, and changes no other cell, no
\* size and nothing of the solution grid
C1_ToggleFrame ==
    [][(last' = "toggle" /\ cursor \in Coords(puzzle.game_grid)) =>
        LET old == CellAt(puzzle.game_grid, cursor.row, cursor.col)
            new == CellAt(puzzle'.game_grid, cursor.row, cursor.col)
        IN  /\ old = Blank => new = River
            /\ old = River => new = Island
            /\ old = Island => new = Blank
            /\ IsValue(old) => new = old /\ puzzle'.game_grid = puzzle.game_grid
            /\ Coords(puzzle'.game_grid) = Coords(puzzle.game_grid)
            /\ \A loc \in Coords(puzzle.game_grid) \ {cursor} :
                   CellAt(puzzle'.game_grid, loc.row, loc.col)
                       = CellAt(puzzle.game_grid, loc.row, loc.col)
            /\ puzzle'.game_grid.grid_size = puzzle.game_grid.grid_size
            /\ puzzle'.solution_grid = puzzle.solution_grid
            /\ grid_size' = grid_size]_vars

\* C1 witness: the last step toggled the cell under the cursor to Island (its
\* second toggle) in a grid that has another cell
C1_Witness ==
    /\ last = "toggle"
    /\ cursor \in Coords(puzzle.game_grid)
    /\ CellAt(puzzle.game_grid, cursor.row, cursor.col) = Island
    /\ Cardinality(Coords(puzzle.game_grid)) > 1

\* C2: at every moment of a session the Value cells of the working grid are those
\* of the grid parsed at load, with the same numbers
C2_ValuesImmutable ==
    InSession =>
        /\ Coords(puzzle.game_grid) = Coords(ret_grid.grid)
        /\ \A loc \in Coords(ret_grid.grid) :
            LET loaded == CellAt(ret_grid.grid, loc.row, loc.col)
                now == CellAt(puzzle.game_grid, loc.row, loc.col)
            IN  (IsValue(loaded) \/ IsValue(now)) => now = loaded

\* C2 witness: the last step toggled a Value cell, after two toggles of another cell
C2_Witness ==
    /\ last = "toggle"
    /\ cursor \in Coords(puzzle.game_grid)
    /\ IsValue(CellAt(puzzle.game_grid, cursor.row, cursor.col))
    /\ \E loc \in Coords(puzzle.game_grid) :
           CellAt(puzzle.game_grid, loc.row, loc.col) = Island

\* the ChangeGameState(Won) events sent so far: each one is either still unread by
\* game_win or has spawned its WinSprite
WinTransitions == win_sprites + unread_gw

\* C3: a win transition is triggered only by a toggle that flips check from false
\* to true, and a session never has more than one
C3_WinOnce ==
    [][(unread_gw' > unread_gw) =>
        /\ last' = "toggle"
        /\ Check(puzzle.game_grid, puzzle.solution_grid) = "false"
        /\ Check(puzzle'.game_grid, puzzle'.solution_grid) = "true"
        /\ win_sprites' + unread_gw' <= 1]_vars

\* C5: a reset (reset_puzzle with R just pressed while Playing) makes every cell
\* that is not a Value Blank and leaves every Value, so the working grid equals the
\* grid parsed at load; a reset right after a reset changes nothing
C5_ResetRestores ==
    [][last' = "reset" =>
        /\ game_state = "Playing"
        /\ Coords(puzzle'.game_grid) = Coords(puzzle.game_grid)
        /\ \A loc \in Coords(puzzle.game_grid) :
            LET old == CellAt(puzzle.game_grid, loc.row, loc.col)
                new == CellAt(puzzle'.game_grid, loc.row, loc.col)
            IN  new = IF IsValue(old) THEN old ELSE Blank
        /\ puzzle'.game_grid = ret_grid.grid
        /\ last = "reset" => puzzle'.game_grid = puzzle.game_grid]_vars

\* C5 witness: the last step was a reset of a grid that had just won against a
\* solution with water (the win event is still unread), and it holds a clue
C5_Witness ==
    /\ last = "reset"
    /\ unread_ugs > 0
    /\ \E loc \in Coords(puzzle.solution_grid) :
           CellAt(puzzle.solution_grid, loc.row, loc.col) = River
    /\ \E loc \in Coords(puzzle.game_grid) :
           IsValue(CellAt(puzzle.game_grid, loc.row, loc.col))
    /\ puzzle.game_grid = ret_grid.grid

\* C7: a session is Playing only with a working grid and a solution grid of equal
\* size
C7_PlayingSizesEqual ==
    (InSession /\ game_state = "Playing") =>
        puzzle.game_grid.grid_size = puzzle.solution_grid.grid_size

-----------------------------------------------------------------------------
(* SpecLoad: the two constructors applied to puzzle and solution texts, well    *)
(* formed and malformed                                                         *)

\* dimension lines: cols,rows for every size of at most MaxGridCells cells, and
\* lines that are empty, short, not numbers, or signed
LoadDimLines ==
    {JoinComma(<<Numeral(d[2]), Numeral(d[1])>>) : d \in Dims(MaxGridCells)}
    \cup {<<>>, Numeral(2), <<"a", ",", "1">>, <<"1", ",", "a">>,
          <<"+", "1", ",", "1">>, <<"-", "1", ",", "1">>}

\* clue lines: size 2 at every row and column from 0 to one past MaxGridCells, and
\* lines with a negative size, numbers outside i8, a missing or a bad token
LoadClueLines ==
    {ClueLine(2, r, c) : r \in 0..(MaxGridCells + 1), c \in 0..(MaxGridCells + 1)}
    \cup {ClueLine(-3, 1, 1), ClueLine(I8Max + 1, 1, 1), ClueLine(2, I8Min, 1),
          ClueLine(2, 1, I8Min), <<>>, <<"2", ",", "1">>, <<"2", ",", "1", ",", "a">>}

\* puzzles of I8Max + 1 rows and one column: without a clue, with a clue in the
\* last row, and with a clue in the row before it
TallPuzzleTexts ==
    {PuzzleText(I8Max + 1, 1, clues) :
        clues \in {<<>>, <<ClueLine(2, I8Max + 1, 1)>>, <<ClueLine(2, I8Max, 1)>>}}

LoadPuzzleTexts ==
    {<<>>, << <<"#">> >>}
    \cup TallPuzzleTexts
    \cup {<< <<"#">>, dims >> : dims \in LoadDimLines}
    \cup {<< <<"#">>, dims, skipped, skipped >> \o clues :
             dims \in LoadDimLines, skipped \in {<<>>, <<"z">>},
             clues \in SeqsUpTo(LoadClueLines, MaxClues)}

\* solution texts of at most MaxGridCells cells over water, land written two ways,
\* and the digits 0, 1 and 9; the text without lines and lines of unequal length
\* are among them
LoadSolutionChars == {"x", ".", " ", "0", "1", "9"}
LoadSolutionTexts == Texts(LoadSolutionChars, MaxGridCells)

InitLoad ==
    /\ \/ puzzle_str \in LoadPuzzleTexts /\ solution_str = <<>>
       \/ puzzle_str = <<>> /\ solution_str \in LoadSolutionTexts
    /\ ret_grid = BuildPanic
    /\ CellArgsIdle /\ GridArgsIdle /\ NotCalled /\ GameIdle

\* Grid::from_puzzle_string(puzzle_str)
CallFromPuzzleString ==
    /\ fn = "none"
    /\ fn' = "from_puzzle_string"
    /\ n_calls' = 1
    /\ ret_grid' = from_puzzle_string(puzzle_str)
    /\ UNCHANGED <<arg_a, arg_b, arg_g, arg_s, arg_row, arg_col, ret_cell, ret_bool, ret_check>>
    /\ UNCHANGED <<puzzle_str, solution_str, game_vars>>

\* Grid::from_solution_string(solution_str)
CallFromSolutionString ==
    /\ fn = "none"
    /\ fn' = "from_solution_string"
    /\ n_calls' = 1
    /\ ret_grid' = from_solution_string(solution_str)
    /\ UNCHANGED <<arg_a, arg_b, arg_g, arg_s, arg_row, arg_col, ret_cell, ret_bool, ret_check>>
    /\ UNCHANGED <<puzzle_str, solution_str, game_vars>>

NextLoad == CallFromPuzzleString \/ CallFromSolutionString

SpecLoad == InitLoad /\ [][NextLoad]_vars

\* C8: every Grid a constructor returns has grid_size.rows rows of grid_size.cols
\* cells each (so a solution text with lines of unequal length yields no Grid)
C8_ConstructedRectangular ==
    (fn \in {"from_puzzle_string", "from_solution_string"} /\ ret_grid.ok) =>
        Rectangular(ret_grid.grid)

\* the sizes <<rows, cols>> and the clues <<size, row, col>> that the puzzle texts
\* of SpecLoad are written from
ClaimDims == Dims(MaxGridCells) \cup {<<I8Max + 1, 1>>}
ClaimClues ==
    {<<2, r, c>> : r \in 0..(MaxGridCells + 1), c \in 0..(MaxGridCells + 1)}
    \cup {<<2, I8Max + 1, 1>>, <<2, I8Max, 1>>, <<-3, 1, 1>>, <<I8Max + 1, 1, 1>>}

\* the text is a header line, a line cols,rows and, after two skipped lines, clue
\* lines size,row,col
IsPuzzleText(str) ==
    /\ Len(str) >= 2
    /\ \E d \in ClaimDims : str[2] = JoinComma(<<Numeral(d[2]), Numeral(d[1])>>)
    /\ \A i \in 5..Len(str) : \E cl \in ClaimClues : str[i] = ClueLine(cl[1], cl[2], cl[3])

\* the size and the clues such a text was written from
DimsOf(str) ==
    CHOOSE d \in ClaimDims : str[2] = JoinComma(<<Numeral(d[2]), Numeral(d[1])>>)
CluesOf(str) ==
    {CHOOSE cl \in ClaimClues : str[i] = ClueLine(cl[1], cl[2], cl[3]) : i \in 5..Len(str)}

\* C11: from_puzzle_string on a text with line cols,rows and clue lines
\* size,row,col (at distinct places): when every clue has 1 <= row <= rows and
\* 1 <= col <= cols the result is the rows x cols grid with Value(size) at
\* (row-1, col-1) of each clue and Blank elsewhere; when some clue lies outside,
\* no Grid is produced
C11_PuzzleParse ==
    (fn = "from_puzzle_string" /\ IsPuzzleText(puzzle_str)) =>
        LET rows == DimsOf(puzzle_str)[1]
            cols == DimsOf(puzzle_str)[2]
            clues == CluesOf(puzzle_str)
            g == ret_grid.grid
        IN  (\A a, b \in clues : (a[2] = b[2] /\ a[3] = b[3]) => a = b) =>
            IF \A cl \in clues : cl[2] \in 1..rows /\ cl[3] \in 1..cols
            THEN /\ ret_grid.ok
                 /\ g.grid_size = GridSize(rows, cols)
                 /\ Rectangular(g)
                 /\ \A loc \in Coords(g) :
                        CellAt(g, loc.row, loc.col) =
                            IF \E cl \in clues : cl[2] = loc.row + 1 /\ cl[3] = loc.col + 1
                            THEN Value((CHOOSE cl \in clues :
                                           cl[2] = loc.row + 1 /\ cl[3] = loc.col + 1)[1])
                            ELSE Blank
            ELSE ~ret_grid.ok

\* the text has lines of one length (a text without lines included)
EqualLines(str) == \A r \in 1..Len(str) : Len(str[r]) = Len(str[1])

\* C12: from_solution_string on a text of R lines of C characters each, R and C
\* from 0 on, returns a Grid of R rows and C columns whose cell at (r, c) is
\* Value(d) for the digit d, River for x and Island for any other character
C12_SolutionParse ==
    (fn = "from_solution_string" /\ EqualLines(solution_str)) =>
        LET g == ret_grid.grid
        IN  /\ ret_grid.ok
            /\ g.grid_size.rows = Len(solution_str)
            /\ Len(g.grid) = Len(solution_str)
            /\ \A r \in 1..Len(solution_str) :
                /\ g.grid_size.cols = Len(solution_str[r])
                /\ Len(g.grid[r]) = Len(solution_str[r])
                /\ \A c \in 1..Len(solution_str[r]) :
                    LET ch == solution_str[r][c]
                    IN  /\ \A d \in 0..9 : ch = DigitChars[d + 1] => g.grid[r][c] = Value(d)
                        /\ ch = "x" => g.grid[r][c] = River
                        /\ (ch # "x" /\ \A d \in 0..9 : ch # DigitChars[d + 1])
                               => g.grid[r][c] = Island

\* C13: once the game state is Won it stays Won, and no step changes the working
\* grid, the tiles or the cursor any more, whatever keys are pressed
C13_WonIsFinal ==
    [][game_state = "Won" =>
        /\ game_state' = "Won"
        /\ puzzle' = puzzle
        /\ tiles' = tiles
        /\ cursor' = cursor]_vars

\* C13 witness: the state became Won in an earlier frame (update_game_state has
\* not run in this one) and move_cursor, toggle_cell and reset_puzzle have run in
\* this frame, on a grid with more than one cell
C13_Witness ==
    /\ status = "running"
    /\ game_state = "Won"
    /\ "update_game_state" \in todo
    /\ todo \cap {"move_cursor", "toggle_cell", "reset_puzzle"} = {}
    /\ Cardinality(Coords(puzzle.game_grid)) > 1

\* C14: whenever the game state is Won, check of the working grid against the
\* solution grid is true, for every order of the systems within and across frames
C14_WonImpliesCheck ==
    (InSession /\ game_state = "Won") =>
        Check(puzzle.game_grid, puzzle.solution_grid) = "true"

\* C15: at every moment of a session there is one tile per coordinate of the
\* working grid, and the Cell of the tile at (row, col) equals
\* game_grid.get(row, col)
C15_TilesMatchGrid ==
    InSession =>
        /\ DOMAIN tiles = Coords(puzzle.game_grid)
        /\ \A loc \in DOMAIN tiles :
               tiles[loc] = GridGet(puzzle.game_grid, loc.row, loc.col)

\* C15 witness: the last step toggled the tile under the cursor to Island (its
\* second toggle) and another tile holds a clue
C15_Witness ==
    /\ last = "toggle"
    /\ unread_ugs = 0
    /\ cursor \in DOMAIN tiles
    /\ tiles[cursor] = Island
    /\ \E loc \in DOMAIN tiles : IsValue(tiles[loc])

\* the step is a run of move_cursor
MoveStep == "move_cursor" \in todo /\ (todo' = todo \ {"move_cursor"} \/ todo = {"move_cursor"})

\* the cursor is on a cell of the working grid, where Grid::set does not panic
CursorInRange ==
    /\ cursor.row \in 0..(puzzle.game_grid.grid_size.rows - 1)
    /\ cursor.col \in 0..(puzzle.game_grid.grid_size.cols - 1)
    /\ ~SetPanics(puzzle.game_grid, cursor)

\* C16: in a session whose grid has rows >= 1 and cols >= 1 the cursor starts at
\* (0, 0); every run of move_cursor moves it by at most one row and one column and
\* leaves it inside 0..rows-1 x 0..cols-1 (on the edge when it was on the edge and
\* moved outward); so at every moment the cursor is a coordinate where Grid::set
\* does not index out of bounds
C16_CursorInRange ==
    /\ (InSession /\ grid_size.rows >= 1 /\ grid_size.cols >= 1) =>
           cursor = GridComponent(0, 0) /\ CursorInRange
    /\ [][(InSession /\ grid_size.rows >= 1 /\ grid_size.cols >= 1) =>
            /\ CursorInRange'
            /\ grid_size' = puzzle'.game_grid.grid_size
            /\ cursor' # cursor =>
                /\ MoveStep
                /\ cursor'.row - cursor.row \in {-1, 0, 1}
                /\ cursor'.col - cursor.col \in {-1, 0, 1}]_vars

\* C16 witness: the last step toggled the cell in the last row and last column of a
\* grid with more than one cell
C16_Witness ==
    /\ last = "toggle"
    /\ status = "running"
    /\ Cardinality(Coords(puzzle.game_grid)) > 1
    /\ cursor = GridComponent(grid_size.rows - 1, grid_size.cols - 1)
    /\ CellAt(puzzle.game_grid, cursor.row, cursor.col) = River

\* the cells a land cell may be replaced by, and the coordinates that hold water
LandCells == {Blank, Island, Value(1), Value(2)}
RiverCoords(g) == {loc \in Coords(g) : CellAt(g, loc.row, loc.col) = River}

\* C17: for grids a, b of equal size, check(a, b) is unchanged when a land cell
\* (Blank, Island or Value) of a or of b is replaced by another land cell, is true
\* when a and b have River at the same coordinates, and equals check(b, a)
C17_CheckPartition ==
    (fn = "check" /\ arg_g.grid_size = arg_s.grid_size) =>
        /\ \A loc \in Coords(arg_g) \ RiverCoords(arg_g), v \in LandCells :
               Check(GridSet(arg_g, loc, v), arg_s) = ret_check
        /\ \A loc \in Coords(arg_s) \ RiverCoords(arg_s), v \in LandCells :
               Check(arg_g, GridSet(arg_s, loc, v)) = ret_check
        /\ RiverCoords(arg_g) = RiverCoords(arg_s) => ret_check = "true"
        /\ Check(arg_s, arg_g) = ret_check

=============================================================================
